---- MODULE Spec2Model ----
(***************************************************************************)
(* Release Insights dashboard (DashboardPage): the CSV load pipeline       *)
(* (parseStringArray, parseCsvData, processReleases, fetchData), the       *)
(* filter (filteredReleases), the aggregates (kpiValues, stabilityData,    *)
(* releaseFrequencyData, changeTypeCountsData, repoWorkingDaysData) and    *)
(* the selection handlers.                                                 *)
(*                                                                         *)
(* Text is a sequence of atoms.  The characters the code looks at (comma,  *)
(* newline, blank, quote, brackets, sign, digits, byte-order mark) are     *)
(* atoms of their own; a run of other characters ("app", "2024-01-05") is  *)
(* one atom.                                                               *)
(***************************************************************************)
EXTENDS Integers, Sequences, FiniteSets, TLC

VARIABLES pc, csvText, releases, isLoading, error,
          selectedRepoNames, selectedPackages, selectedAuthors,
          selectedChangeTypes, selectedMonths, currentPage

vars == <<pc, csvText, releases, isLoading, error,
          selectedRepoNames, selectedPackages, selectedAuthors,
          selectedChangeTypes, selectedMonths, currentPage>>

selections == <<selectedRepoNames, selectedPackages, selectedAuthors,
                selectedChangeTypes, selectedMonths>>

-----------------------------------------------------------------------------
(* ChangeType enum *)
MAJOR == "major"
MINOR == "minor"
PATCH == "patch"
OTHER_CHANGE == "other"
PRERELEASE == "prerelease"
STABLE == "stable"
GENERAL_OTHER == "general_other"

ChangeTypes == {MAJOR, MINOR, PATCH, OTHER_CHANGE, PRERELEASE, STABLE, GENERAL_OTHER}

ITEMS_PER_PAGE == 10
MAX_REPOS_TO_DISPLAY == 10

-----------------------------------------------------------------------------
(* Text primitives *)
LF == "\n"
CR == "\r"
BOM == "BOM"
COMMA == ","
QUOTE == "'"
LBRACKET == "["
RBRACKET == "]"
SPACE == " "

\* what String.prototype.trim strips
WhiteSpace == {SPACE, "\t", LF, CR, BOM}

\* the value of a property that was never set
UNDEFINED == <<"<undefined>">>

RECURSIVE Trim(_)
Trim(s) ==
  IF s = <<>> THEN s
  ELSE IF s[1] \in WhiteSpace THEN Trim(Tail(s))
  ELSE IF s[Len(s)] \in WhiteSpace THEN Trim(SubSeq(s, 1, Len(s) - 1))
  ELSE s

FirstIndex(s, c) ==
  IF \E i \in 1..Len(s) : s[i] = c
  THEN CHOOSE i \in 1..Len(s) : s[i] = c /\ \A j \in 1..(i - 1) : s[j] # c
  ELSE 0

\* String.prototype.split with a one-character separator
RECURSIVE Split(_, _)
Split(s, sep) ==
  LET i == FirstIndex(s, sep) IN
  IF i = 0 THEN <<s>>
  ELSE <<SubSeq(s, 1, i - 1)>> \o Split(SubSeq(s, i + 1, Len(s)), sep)

\* csvText.split(/\r\n|\n/)
RECURSIVE SplitLines(_)
SplitLines(s) ==
  LET i == FirstIndex(s, LF) IN
  IF i = 0 THEN <<s>>
  ELSE LET cut == IF i > 1 /\ s[i - 1] = CR THEN i - 2 ELSE i - 1
       IN <<SubSeq(s, 1, cut)>> \o SplitLines(SubSeq(s, i + 1, Len(s)))

\* index of the first match of /',\s*'/ in s, and the index after the match
RECURSIVE SkipSpaces(_, _)
SkipSpaces(s, i) ==
  IF i <= Len(s) /\ s[i] \in WhiteSpace THEN SkipSpaces(s, i + 1) ELSE i

ItemSepAt(s, i) ==
  /\ i + 1 <= Len(s)
  /\ s[i] = QUOTE
  /\ s[i + 1] = COMMA
  /\ LET j == SkipSpaces(s, i + 2) IN j <= Len(s) /\ s[j] = QUOTE

\* content.split(/',\s*'/)
RECURSIVE SplitItems(_)
SplitItems(s) ==
  IF \E i \in 1..Len(s) : ItemSepAt(s, i)
  THEN LET i == CHOOSE k \in 1..Len(s) :
                  ItemSepAt(s, k) /\ \A j \in 1..(k - 1) : ~ItemSepAt(s, j)
           e == SkipSpaces(s, i + 2)
       IN <<SubSeq(s, 1, i - 1)>> \o SplitItems(SubSeq(s, e + 1, Len(s)))
  ELSE <<s>>

\* item.replace(/^'|'$/g, '')
StripQuotes(s) ==
  LET a == IF s # <<>> /\ s[1] = QUOTE THEN 1 ELSE 0
      b == IF Len(s) > a /\ s[Len(s)] = QUOTE THEN 1 ELSE 0
  IN SubSeq(s, 1 + a, Len(s) - b)

\* a function with domain 1..n as a tuple of its values
Tuple(f) == f \o <<>>

MapSeq(s, F(_)) == Tuple([i \in 1..Len(s) |-> F(s[i])])

NonEmpty(s) == s # <<>>

TrimStripQuotes(item) == StripQuotes(Trim(item))

parseStringArray(str) ==
  IF str = <<>> \/ Trim(str) = <<LBRACKET, RBRACKET>> \/ Trim(str) = <<>> THEN <<>>
  ELSE
    LET t == Trim(str)
        \* substring(1, length - 1); substring swaps its arguments when length = 1
        content == IF t[1] = LBRACKET /\ t[Len(t)] = RBRACKET
                   THEN (IF Len(t) = 1 THEN t ELSE Trim(SubSeq(t, 2, Len(t) - 1)))
                   ELSE t
    IN IF content = <<>> THEN <<>>
       ELSE SelectSeq(MapSeq(SplitItems(content), TrimStripQuotes), NonEmpty)

ListColumns == {<<"major_changes">>, <<"minor_changes">>, <<"patch_changes">>, <<"other_changes">>}

NonBlankLine(line) == Trim(line) # <<>>

\* one data line to an entry: a function from the header names to the cells
ParseLine(headers, line) ==
  LET values == Split(line, COMMA)
      cell(index) == IF index <= Len(values) /\ values[index] # <<>>
                     THEN Trim(values[index]) ELSE <<>>
      last(h) == CHOOSE i \in 1..Len(headers) :
                   headers[i] = h /\ \A j \in (i + 1)..Len(headers) : headers[j] # h
  IN [h \in {headers[i] : i \in 1..Len(headers)} |->
        IF h \in ListColumns THEN parseStringArray(cell(last(h))) ELSE cell(last(h))]

HeadersOf(lines) ==
  LET headerLine == IF lines[1] # <<>> /\ lines[1][1] = BOM THEN Tail(lines[1]) ELSE lines[1]
  IN MapSeq(Split(headerLine, COMMA), Trim)

parseCsvData(text) ==
  LET lines == SelectSeq(SplitLines(text), NonBlankLine) IN
  IF Len(lines) < 2 THEN <<>>
  ELSE LET headers == HeadersOf(lines)
       IN Tuple([k \in 1..(Len(lines) - 1) |-> ParseLine(headers, lines[k + 1])])

-----------------------------------------------------------------------------
(* Numbers and dates *)
Digits == <<"0", "1", "2", "3", "4", "5", "6", "7", "8", "9">>
DigitSet == {Digits[i] : i \in 1..10}
DigitVal(c) == (CHOOSE i \in 1..10 : Digits[i] = c) - 1

RECURSIVE PrefixValue(_, _)
PrefixValue(s, acc) ==
  IF s = <<>> \/ s[1] \notin DigitSet THEN acc
  ELSE PrefixValue(Tail(s), 10 * acc + DigitVal(s[1]))

\* parseInt(v, 10) || 0
ParseIntOr0(v) ==
  LET body == IF v # <<>> /\ v[1] \in {"-", "+"} THEN Tail(v) ELSE v
      sign == IF v # <<>> /\ v[1] = "-" THEN -1 ELSE 1
  IN IF body = <<>> \/ body[1] \notin DigitSet THEN 0 ELSE sign * PrefixValue(body, 0)

\* String(n) for n >= 0
RECURSIVE NumStr(_)
NumStr(n) == IF n < 10 THEN <<Digits[n + 1]>> ELSE NumStr(n \div 10) \o <<Digits[(n % 10) + 1]>>

NaNStr == <<"N", "a", "N">>

\* s.padStart(2, '0')
PadStart2(s) == IF Len(s) >= 2 THEN s ELSE <<"0">> \o s

\* The timestamps the Date constructor parses: text, getTime() (in days since the
\* epoch), getFullYear(), getMonth().  Any other text gives an Invalid Date.
KnownDates == {
  [text |-> "2023-12-31", time |-> 19722, year |-> 2023, month |-> 11],
  [text |-> "2024-01-05", time |-> 19727, year |-> 2024, month |-> 0],
  [text |-> "2024-01-20", time |-> 19742, year |-> 2024, month |-> 0],
  [text |-> "2024-02-10", time |-> 19763, year |-> 2024, month |-> 1] }

NullDate == [kind |-> "null", time |-> 0, year |-> 0, month |-> 0]
InvalidDate == [kind |-> "invalid", time |-> 0, year |-> 0, month |-> 0]

\* new Date(str)
NewDate(str) ==
  IF \E d \in KnownDates : str = <<d.text>>
  THEN LET d == CHOOSE d \in KnownDates : str = <<d.text>>
       IN [kind |-> "valid", time |-> d.time, year |-> d.year, month |-> d.month]
  ELSE InvalidDate

\* `${d.getFullYear()}-${String(d.getMonth() + 1).padStart(2, '0')}`; the getters
\* of an Invalid Date return NaN
YearMonth(d) ==
  IF d.kind = "valid"
  THEN NumStr(d.year) \o <<"-">> \o PadStart2(NumStr(d.month + 1))
  ELSE NaNStr \o <<"-">> \o PadStart2(NaNStr)

\* Array.prototype.sort with a consistent comparator: stable
StableSort(s, Before(_, _)) ==
  LET n == Len(s)
      pos(i) == 1 + Cardinality({j \in 1..n :
                  \/ Before(s[j], s[i])
                  \/ (~Before(s[i], s[j]) /\ ~Before(s[j], s[i]) /\ j < i)})
  IN Tuple([k \in 1..n |-> s[CHOOSE i \in 1..n : pos(i) = k]])

\* the distinct values of s in order of first appearance (keys of a Map or object)
RECURSIVE Uniq(_)
Uniq(s) ==
  IF s = <<>> THEN <<>>
  ELSE LET init == Uniq(SubSeq(s, 1, Len(s) - 1))
           x == s[Len(s)]
       IN IF \E i \in 1..Len(init) : init[i] = x THEN init ELSE Append(init, x)

RECURSIVE SumSeq(_)
SumSeq(s) == IF s = <<>> THEN 0 ELSE s[1] + SumSeq(Tail(s))

-----------------------------------------------------------------------------
(* Record Enricher *)
Has(r, k) == <<k>> \in DOMAIN r
Get(r, k) == IF Has(r, k) THEN r[<<k>>] ELSE UNDEFINED

\* truthiness of a string-or-undefined value
Truthy(v) == v # <<>> /\ v # UNDEFINED

\* HasPublished without the test: every parsed record is kept
KeepsEveryRecord(r) == TRUE

HasPublished(r) == Truthy(Get(r, "published_at_kst"))

\* r.x_changes.length throws a TypeError when the property is undefined
ThrowsOnLength(r) ==
  ~(Has(r, "major_changes") /\ Has(r, "minor_changes")
    /\ Has(r, "patch_changes") /\ Has(r, "other_changes"))

\* DeriveChangeTypes with general_other pushed unconditionally
DeriveAlwaysGeneral(r) ==
  LET d0 == IF Truthy(Get(r, "is_prerelease")) THEN <<PRERELEASE>> ELSE <<STABLE>>
      d1 == IF Len(r[<<"major_changes">>]) > 0 THEN Append(d0, MAJOR) ELSE d0
      d2 == IF Len(r[<<"minor_changes">>]) > 0 THEN Append(d1, MINOR) ELSE d1
      d3 == IF Len(r[<<"patch_changes">>]) > 0 THEN Append(d2, PATCH) ELSE d2
      d4 == IF Len(r[<<"other_changes">>]) > 0 THEN Append(d3, OTHER_CHANGE) ELSE d3
  IN Append(d4, GENERAL_OTHER)

DeriveChangeTypes(r) ==
  LET d0 == IF Truthy(Get(r, "is_prerelease")) THEN <<PRERELEASE>> ELSE <<STABLE>>
      d1 == IF Len(r[<<"major_changes">>]) > 0 THEN Append(d0, MAJOR) ELSE d0
      d2 == IF Len(r[<<"minor_changes">>]) > 0 THEN Append(d1, MINOR) ELSE d1
      d3 == IF Len(r[<<"patch_changes">>]) > 0 THEN Append(d2, PATCH) ELSE d2
      d4 == IF Len(r[<<"other_changes">>]) > 0 THEN Append(d3, OTHER_CHANGE) ELSE d3
  IN IF ~(\E ct \in {MAJOR, MINOR, PATCH, OTHER_CHANGE} :
             \E i \in 1..Len(d4) : d4[i] = ct)
     THEN Append(d4, GENERAL_OTHER) ELSE d4

\* the object the map callback returns; raw holds the spread properties of r
Enrich(r) ==
  [ raw |-> r,
    id |-> ParseIntOr0(Get(r, "id")),
    working_days |-> ParseIntOr0(Get(r, "working_days")),
    publishedDate |-> IF Truthy(Get(r, "published_at_kst"))
                      THEN NewDate(Get(r, "published_at_kst")) ELSE NullDate,
    derivedChangeTypes |-> DeriveChangeTypes(r),
    numMajorChanges |-> Len(r[<<"major_changes">>]),
    numMinorChanges |-> Len(r[<<"minor_changes">>]),
    numPatchChanges |-> Len(r[<<"patch_changes">>]),
    numOtherChanges |-> Len(r[<<"other_changes">>]) ]

\* publishedDate?.getTime() || 0
SortKey(p) == IF p.publishedDate.kind = "valid" THEN p.publishedDate.time ELSE 0

\* NewerFirst with the operands of the subtraction exchanged
OlderFirst(a, b) == SortKey(a) - SortKey(b) < 0

NewerFirst(a, b) == SortKey(b) - SortKey(a) < 0

\* [ok |-> TRUE, value |-> the enriched records] or [ok |-> FALSE, message |-> ...]
processReleases(csvData) ==
  LET kept == SelectSeq(csvData, HasPublished) IN
  IF \E i \in 1..Len(kept) : ThrowsOnLength(kept[i])
  THEN [ok |-> FALSE, value |-> <<>>,
        message |-> "Cannot read properties of undefined (reading 'length')"]
  ELSE [ok |-> TRUE, value |-> StableSort(MapSeq(kept, Enrich), NewerFirst), message |-> ""]

repo_name(p) == Get(p.raw, "repo_name")
package(p) == Get(p.raw, "package")
author(p) == Get(p.raw, "author")
is_prerelease(p) == Get(p.raw, "is_prerelease")

-----------------------------------------------------------------------------
(* Filter Engine *)
\* Retained without the package test
RetainedIgnoringPackage(r) ==
  IF selectedRepoNames # {} /\ repo_name(r) \notin selectedRepoNames THEN FALSE
  ELSE IF selectedAuthors # {} /\ author(r) \notin selectedAuthors THEN FALSE
  ELSE IF selectedChangeTypes # {}
          /\ ~(\E i \in 1..Len(r.derivedChangeTypes) :
                 r.derivedChangeTypes[i] \in selectedChangeTypes) THEN FALSE
  ELSE IF selectedMonths # {}
       THEN (IF r.publishedDate.kind = "null" THEN FALSE
             ELSE YearMonth(r.publishedDate) \in selectedMonths)
  ELSE TRUE

\* the callback of releases.filter
Retained(r) ==
  IF selectedRepoNames # {} /\ repo_name(r) \notin selectedRepoNames THEN FALSE
  ELSE IF selectedPackages # {} /\ package(r) \notin selectedPackages THEN FALSE
  ELSE IF selectedAuthors # {} /\ author(r) \notin selectedAuthors THEN FALSE
  ELSE IF selectedChangeTypes # {}
          /\ ~(\E i \in 1..Len(r.derivedChangeTypes) :
                 r.derivedChangeTypes[i] \in selectedChangeTypes) THEN FALSE
  ELSE IF selectedMonths # {}
       THEN (IF r.publishedDate.kind = "null" THEN FALSE
             ELSE YearMonth(r.publishedDate) \in selectedMonths)
  ELSE TRUE

filteredReleases == SelectSeq(releases, Retained)

-----------------------------------------------------------------------------
(* Aggregator *)
\* (num / den).toFixed(1) in tenths, den > 0; exact while den < 20, where the
\* only ties (x.x5) are multiples of 1/4, which a double holds exactly
ToFixed1(num, den) ==
  LET a == IF num < 0 THEN -num ELSE num
      n == (20 * a + den) \div (2 * den)
  IN IF num < 0 THEN -n ELSE n

WorkingDaysOf(r) == r.working_days
HasWorkingDays(r) == r.working_days > 0

\* the fourth KPI: na for 'N/A', else the text of the average in tenths of a day
AvgWorkingDays(rs) ==
  LET totalWorkingDays == SumSeq(MapSeq(rs, WorkingDaysOf))
      releasesWithWorkingDays == SelectSeq(rs, HasWorkingDays)
  IN IF Len(releasesWithWorkingDays) > 0
     THEN [na |-> FALSE, tenths |-> ToFixed1(totalWorkingDays, Len(releasesWithWorkingDays))]
     ELSE [na |-> TRUE, tenths |-> 0]

kpiValues ==
  [ total |-> Len(filteredReleases),
    uniqueRepos |-> Cardinality({repo_name(filteredReleases[i]) : i \in 1..Len(filteredReleases)}),
    uniqueAuthors |-> Cardinality({author(filteredReleases[i]) : i \in 1..Len(filteredReleases)}),
    avgWorkingDays |-> AvgWorkingDays(filteredReleases) ]

StabilityOf(r) == IF Truthy(is_prerelease(r)) THEN PRERELEASE ELSE STABLE

stabilityData ==
  LET names == Uniq(MapSeq(filteredReleases, StabilityOf))
  IN Tuple([k \in 1..Len(names) |->
        [name |-> names[k],
         value |-> Cardinality({i \in 1..Len(filteredReleases) :
                                  StabilityOf(filteredReleases[i]) = names[k]})]])

\* a.localeCompare(b) < 0 for the characters of a year-month label
CollationOrder == <<"-", "0", "1", "2", "3", "4", "5", "6", "7", "8", "9", "a", "N">>
CollationRank(c) == CHOOSE i \in 1..Len(CollationOrder) : CollationOrder[i] = c

RECURSIVE LabelBefore(_, _)
LabelBefore(a, b) ==
  IF b = <<>> THEN FALSE
  ELSE IF a = <<>> THEN TRUE
  ELSE IF a[1] = b[1] THEN LabelBefore(Tail(a), Tail(b))
  ELSE CollationRank(a[1]) < CollationRank(b[1])

HasDate(r) == r.publishedDate.kind # "null"
LabelOf(r) == YearMonth(r.publishedDate)
DateBefore(a, b) == LabelBefore(a.date, b.date)

\* the reduce of releaseFrequencyData over rs, then the sort by label
FrequencyOf(rs) ==
  LET dated == MapSeq(SelectSeq(rs, HasDate), LabelOf)
      keys == Uniq(dated)
      entries == Tuple([k \in 1..Len(keys) |->
                    [date |-> keys[k],
                     count |-> Cardinality({i \in 1..Len(dated) : dated[i] = keys[k]})]])
  IN StableSort(entries, DateBefore)

releaseFrequencyData == FrequencyOf(filteredReleases)

NumMajor(r) == r.numMajorChanges
NumMinor(r) == r.numMinorChanges
NumPatch(r) == r.numPatchChanges
NumOther(r) == r.numOtherChanges
PositiveValue(item) == item.value > 0

changeTypeCountsData ==
  SelectSeq(<< [name |-> MAJOR, value |-> SumSeq(MapSeq(filteredReleases, NumMajor))],
               [name |-> MINOR, value |-> SumSeq(MapSeq(filteredReleases, NumMinor))],
               [name |-> PATCH, value |-> SumSeq(MapSeq(filteredReleases, NumPatch))],
               [name |-> OTHER_CHANGE, value |-> SumSeq(MapSeq(filteredReleases, NumOther))] >>,
            PositiveValue)

\* HigherAverage with the operands of the subtraction exchanged
LowerAverage(a, b) == a.avgWorkingDays - b.avgWorkingDays < 0

HigherAverage(a, b) == b.avgWorkingDays - a.avgWorkingDays < 0

\* Array.prototype.slice(0, n)
Slice0(s, n) == SubSeq(s, 1, IF Len(s) < n THEN Len(s) ELSE n)

\* the ranking of repoWorkingDaysData over rs; avgWorkingDays in tenths of a day
RepoWorkingDaysOf(rs) ==
  LET counted == SelectSeq(rs, HasWorkingDays)
      names == Uniq(MapSeq(counted, repo_name))
      totalDays(nm) == SumSeq(MapSeq(SelectSeq(counted, LAMBDA r : repo_name(r) = nm), WorkingDaysOf))
      count(nm) == Len(SelectSeq(counted, LAMBDA r : repo_name(r) = nm))
      entries == Tuple([k \in 1..Len(names) |->
                    [name |-> names[k], releases |-> count(names[k]),
                     avgWorkingDays |-> ToFixed1(totalDays(names[k]), count(names[k]))]])
  IN Slice0(StableSort(entries, HigherAverage), MAX_REPOS_TO_DISPLAY)

repoWorkingDaysData == RepoWorkingDaysOf(filteredReleases)

totalPages == (Len(filteredReleases) + ITEMS_PER_PAGE - 1) \div ITEMS_PER_PAGE

\* currentTableItems sliced from releases: the table ignores the selection
UnfilteredTableItems ==
  LET from == (currentPage - 1) * ITEMS_PER_PAGE
      to == currentPage * ITEMS_PER_PAGE
      n == Len(releases)
  IN SubSeq(releases, from + 1, IF n < to THEN n ELSE to)

\* filteredReleases.slice((currentPage - 1) * ITEMS_PER_PAGE, currentPage * ITEMS_PER_PAGE)
currentTableItems ==
  LET from == (currentPage - 1) * ITEMS_PER_PAGE
      to == currentPage * ITEMS_PER_PAGE
      n == Len(filteredReleases)
  IN SubSeq(filteredReleases, from + 1, IF n < to THEN n ELSE to)

anyFilterActive ==
  \/ selectedRepoNames # {} \/ selectedPackages # {} \/ selectedAuthors # {}
  \/ selectedChangeTypes # {} \/ selectedMonths # {}

-----------------------------------------------------------------------------
(* The fetched file: /github_releases_data.csv *)
MaxRows == 2
MaxRankRows == 12

\* the columns of CsvRelease
Columns == <<"id", "repo_name", "package", "version", "author", "published_at_kst",
             "is_prerelease", "is_draft", "major_changes", "minor_changes",
             "patch_changes", "other_changes", "working_days", "year", "month">>

EmptyList == <<LBRACKET, RBRACKET>>
ListOf(item) == <<LBRACKET, QUOTE, item, QUOTE, RBRACKET>>

\* id=1, repo=app, published_at_kst=2024-01-05, is_prerelease=false, major_changes=['fix']
BaseRow ==
  [c \in {Columns[i] : i \in 1..Len(Columns)} |->
     CASE c = "id" -> <<"1">>
       [] c = "repo_name" -> <<"app">>
       [] c = "package" -> <<"core">>
       [] c = "version" -> <<"v1">>
       [] c = "author" -> <<"ann">>
       [] c = "published_at_kst" -> <<"2024-01-05">>
       [] c = "is_prerelease" -> <<"false">>
       [] c = "is_draft" -> <<"false">>
       [] c = "major_changes" -> ListOf("fix")
       [] c = "minor_changes" -> EmptyList
       [] c = "patch_changes" -> EmptyList
       [] c = "other_changes" -> EmptyList
       [] c = "working_days" -> <<"3">>
       [] c = "year" -> <<"2", "0", "2", "4">>
       [] c = "month" -> <<"1">>]

SeqsUpTo(S, n) == UNION {[1..k -> S] : k \in 0..n}

\* rows that differ in the prerelease flag and the four change lists
ClassRows ==
  {[BaseRow EXCEPT !["is_prerelease"] = p, !["major_changes"] = a, !["minor_changes"] = b,
                   !["patch_changes"] = c, !["other_changes"] = d] :
     p \in {<<"true">>, <<"false">>, <<>>},
     a \in {EmptyList, ListOf("fix")}, b \in {EmptyList, ListOf("feat")},
     c \in {EmptyList, ListOf("typo")}, d \in {EmptyList, ListOf("docs")}}

\* rows that differ in repository, package and author, and in publish timestamp,
\* prerelease flag and change lists
Owners == {<<"app", "core", "ann">>, <<"app", "ui", "bob">>, <<"lib", "core", "bob">>}
Kinds == { <<<<"2024-01-05">>, <<"false">>, ListOf("fix"), EmptyList>>,
           <<<<"2024-02-10">>, <<>>, EmptyList, ListOf("feat")>>,
           <<<<"garbage">>, <<"true">>, EmptyList, EmptyList>> }

FilterRows ==
  {[BaseRow EXCEPT !["repo_name"] = <<o[1]>>, !["package"] = <<o[2]>>, !["author"] = <<o[3]>>,
                   !["published_at_kst"] = k[1], !["is_prerelease"] = k[2],
                   !["major_changes"] = k[3], !["minor_changes"] = k[4]] :
     o \in Owners, k \in Kinds}

\* rows that differ in the working-day count
WorkingDayCells == {<<"-", "2">>, <<"0">>, <<"3">>, <<"4">>}

DurationRows ==
  {[BaseRow EXCEPT !["repo_name"] = r, !["working_days"] = w] :
     r \in {<<"app">>, <<"lib">>}, w \in WorkingDayCells}
  \cup {[BaseRow EXCEPT !["working_days"] = <<"x">>],
        [BaseRow EXCEPT !["published_at_kst"] = <<>>]}

RECURSIVE Join(_, _)
Join(parts, sep) ==
  IF parts = <<>> THEN <<>>
  ELSE IF Len(parts) = 1 THEN parts[1]
  ELSE parts[1] \o sep \o Join(Tail(parts), sep)

CellOf(row, c) == IF c \in DOMAIN row THEN row[c] ELSE <<"n/a">>

\* plain: LF line ends; dressed: byte-order mark, a blank after each comma, CRLF
\* line ends and a blank last line
MakeText(cols, rows, dressed) ==
  LET sep == IF dressed THEN <<COMMA, SPACE>> ELSE <<COMMA>>
      eol == IF dressed THEN <<CR, LF>> ELSE <<LF>>
      header == Join([i \in 1..Len(cols) |-> <<cols[i]>>], sep)
      line(row) == Join([i \in 1..Len(cols) |-> CellOf(row, cols[i])], sep)
      body == Join(<<header>> \o [k \in 1..Len(rows) |-> line(rows[k])], eol)
  IN IF dressed THEN <<BOM>> \o body \o eol \o <<SPACE>> \o eol ELSE body

Without(cols, k) == SubSeq(cols, 1, k - 1) \o SubSeq(cols, k + 1, Len(cols))

\* the header as documented, with one column missing, or with one more column
HeaderVariants ==
  {Columns, Append(Columns, "notes")} \cup {Without(Columns, k) : k \in 1..Len(Columns)}

HeaderRows ==
  << BaseRow,
     [BaseRow EXCEPT !["id"] = <<"2">>, !["repo_name"] = <<"lib">>, !["author"] = <<"bob">>,
                     !["published_at_kst"] = <<"2024-02-10">>, !["major_changes"] = EmptyList,
                     !["is_prerelease"] = <<"true">>] >>

\* the two rows of HeaderRows with the published_at_kst cell left empty
UnpublishedRows ==
  << [HeaderRows[1] EXCEPT !["published_at_kst"] = <<>>],
     [HeaderRows[2] EXCEPT !["published_at_kst"] = <<>>] >>

\* row i of a ranking file: repository r<(i-1) mod m + 1>, working days
\* 1 + (a*i mod 3), but -1 for row z and 0 for row z + 1
RankRow(i, m, a, z) ==
  [BaseRow EXCEPT !["repo_name"] = <<"r">> \o NumStr(((i - 1) % m) + 1),
                  !["working_days"] = IF i = z THEN <<"-", "1">>
                                      ELSE IF i = z + 1 THEN <<"0">>
                                      ELSE NumStr(1 + ((a * i) % 3))]

RankTexts ==
  {MakeText(Columns, [i \in 1..n |-> RankRow(i, m, a, z)], FALSE) :
     n \in 0..MaxRankRows, m \in 1..MaxRankRows, a \in 0..2, z \in {0, 1, MaxRankRows - 1}}

CsvTexts ==
  {MakeText(Columns, <<row>>, FALSE) : row \in ClassRows}
  \cup {MakeText(Columns, rows, FALSE) : rows \in SeqsUpTo(FilterRows, MaxRows)}
  \cup {MakeText(Columns, rows, FALSE) : rows \in SeqsUpTo(DurationRows, MaxRows)}
  \cup {MakeText(cols, HeaderRows, dressed) : cols \in HeaderVariants, dressed \in BOOLEAN}
  \cup {MakeText(cols, UnpublishedRows, FALSE) : cols \in HeaderVariants}

-----------------------------------------------------------------------------
(* fetchData *)
Null == "<null>"

\* the view DashboardPage returns
View ==
  IF isLoading THEN "spinner"
  ELSE IF error # Null /\ error # "" THEN "error"
  ELSE "dashboard"

Init ==
  /\ pc = "fetch"
  /\ csvText = <<>>
  /\ releases = <<>>
  /\ isLoading = TRUE
  /\ error = Null
  /\ selectedRepoNames = {}
  /\ selectedPackages = {}
  /\ selectedAuthors = {}
  /\ selectedChangeTypes = {}
  /\ selectedMonths = {}
  /\ currentPage = 1

\* Fail without the finally block
FailWithoutFinally(message) ==
  /\ error' = message
  /\ pc' = "done"
  /\ UNCHANGED <<csvText, releases, isLoading, selections, currentPage>>

\* catch (e) { setError(e.message) } finally { setIsLoading(false) }
Fail(message) ==
  /\ error' = message
  /\ isLoading' = FALSE
  /\ pc' = "done"
  /\ UNCHANGED <<csvText, releases, selections, currentPage>>

\* fetch() rejects
FetchRejects ==
  /\ pc = "fetch"
  /\ Fail("Failed to fetch")

\* !response.ok
ResponseNotOk ==
  /\ pc = "fetch"
  /\ Fail("Network response was not ok: Not Found")

ResponseOk ==
  /\ pc = "fetch"
  /\ pc' = "text"
  /\ UNCHANGED <<csvText, releases, isLoading, error, selections, currentPage>>

\* response.text() rejects
TextRejects ==
  /\ pc = "text"
  /\ Fail("Failed to fetch")

\* response.text() resolves: parse, process, setReleases; a throw goes to catch
Load(text) ==
  /\ pc = "text"
  /\ LET processed == processReleases(parseCsvData(text)) IN
       /\ csvText' = text
       /\ releases' = IF processed.ok THEN processed.value ELSE releases
       /\ error' = IF processed.ok THEN error ELSE processed.message
  /\ isLoading' = FALSE
  /\ pc' = "done"
  /\ UNCHANGED <<selections, currentPage>>

TextResolves == \E text \in CsvTexts : Load(text)

RankTextResolves == \E text \in RankTexts : Load(text)

-----------------------------------------------------------------------------
(* Selection handlers *)
MaxSelected == 2

\* Toggle without the delete branch: the value is always added
AlwaysAdd(prev, value) == prev \cup {value}

\* next = new Set(prev); if (next.has(value)) next.delete(value); else next.add(value)
Toggle(prev, value) == IF value \in prev THEN prev \ {value} ELSE prev \cup {value}

\* the effect on the five selections: setCurrentPage(1)
ResetPage == currentPage' = 1

loadState == <<pc, csvText, releases, isLoading, error>>

ToggleRepoName(value) ==
  /\ selectedRepoNames' = Toggle(selectedRepoNames, value)
  /\ ResetPage
  /\ UNCHANGED <<loadState, selectedPackages, selectedAuthors, selectedChangeTypes, selectedMonths>>

TogglePackage(value) ==
  /\ selectedPackages' = Toggle(selectedPackages, value)
  /\ ResetPage
  /\ UNCHANGED <<loadState, selectedRepoNames, selectedAuthors, selectedChangeTypes, selectedMonths>>

ToggleAuthor(value) ==
  /\ selectedAuthors' = Toggle(selectedAuthors, value)
  /\ ResetPage
  /\ UNCHANGED <<loadState, selectedRepoNames, selectedPackages, selectedChangeTypes, selectedMonths>>

ToggleMonth(value) ==
  /\ selectedMonths' = Toggle(selectedMonths, value)
  /\ ResetPage
  /\ UNCHANGED <<loadState, selectedRepoNames, selectedPackages, selectedAuthors, selectedChangeTypes>>

toggleChangeTypeFilter(value) ==
  /\ selectedChangeTypes' = Toggle(selectedChangeTypes, value)
  /\ ResetPage
  /\ UNCHANGED <<loadState, selectedRepoNames, selectedPackages, selectedAuthors, selectedMonths>>

handleClearAllFilters ==
  /\ selectedRepoNames' = {}
  /\ selectedPackages' = {}
  /\ selectedAuthors' = {}
  /\ selectedChangeTypes' = {}
  /\ selectedMonths' = {}
  /\ ResetPage
  /\ UNCHANGED loadState

-----------------------------------------------------------------------------
(* The rendered dashboard: one action per onClick *)
ClickStabilityCell ==
  /\ View = "dashboard"
  /\ \E k \in 1..Len(stabilityData) : toggleChangeTypeFilter(stabilityData[k].name)

ClickMonthBar ==
  /\ View = "dashboard"
  /\ \E k \in 1..Len(releaseFrequencyData) : ToggleMonth(releaseFrequencyData[k].date)

ClickChangeTypeBar ==
  /\ View = "dashboard"
  /\ \E k \in 1..Len(changeTypeCountsData) : toggleChangeTypeFilter(changeTypeCountsData[k].name)

ClickRepoBar ==
  /\ View = "dashboard"
  /\ \E k \in 1..Len(repoWorkingDaysData) : ToggleRepoName(repoWorkingDaysData[k].name)

ClickRowRepo ==
  /\ View = "dashboard"
  /\ \E k \in 1..Len(currentTableItems) : ToggleRepoName(repo_name(currentTableItems[k]))

ClickRowAuthor ==
  /\ View = "dashboard"
  /\ \E k \in 1..Len(currentTableItems) : ToggleAuthor(author(currentTableItems[k]))

ClickClearAll ==
  /\ View = "dashboard"
  /\ anyFilterActive
  /\ handleClearAllFilters

Next ==
  \/ FetchRejects
  \/ ResponseNotOk
  \/ ResponseOk
  \/ TextRejects
  \/ TextResolves
  \/ ClickStabilityCell
  \/ ClickMonthBar
  \/ ClickChangeTypeBar
  \/ ClickRepoBar
  \/ ClickRowRepo
  \/ ClickRowAuthor
  \/ ClickClearAll

Spec == Init /\ [][Next]_vars

-----------------------------------------------------------------------------
(* The handlers called with any value: the filter as a function of            *)
(* (releases, FilterSelection)                                                *)
RepoUniverse == {<<"app">>, <<"lib">>}
PackageUniverse == {<<"core">>, <<"ui">>}
AuthorUniverse == {<<"ann">>, <<"bob">>}
MonthUniverse == {YearMonth(NewDate(<<"2024-01-05">>)), YearMonth(NewDate(<<"2024-02-10">>)),
                  YearMonth(InvalidDate)}

SelectedCount ==
  Cardinality(selectedRepoNames) + Cardinality(selectedPackages) + Cardinality(selectedAuthors)
  + Cardinality(selectedChangeTypes) + Cardinality(selectedMonths)

CanToggle(set, value) == value \in set \/ SelectedCount < MaxSelected

FilterTexts == {MakeText(Columns, rows, FALSE) : rows \in SeqsUpTo(FilterRows, MaxRows)}

FilterTextResolves == \E text \in FilterTexts : Load(text)

CallToggleRepoName ==
  /\ View = "dashboard"
  /\ \E v \in RepoUniverse : CanToggle(selectedRepoNames, v) /\ ToggleRepoName(v)

CallTogglePackage ==
  /\ View = "dashboard"
  /\ \E v \in PackageUniverse : CanToggle(selectedPackages, v) /\ TogglePackage(v)

CallToggleAuthor ==
  /\ View = "dashboard"
  /\ \E v \in AuthorUniverse : CanToggle(selectedAuthors, v) /\ ToggleAuthor(v)

CallToggleChangeType ==
  /\ View = "dashboard"
  /\ \E v \in ChangeTypes : CanToggle(selectedChangeTypes, v) /\ toggleChangeTypeFilter(v)

CallToggleMonth ==
  /\ View = "dashboard"
  /\ \E v \in MonthUniverse : CanToggle(selectedMonths, v) /\ ToggleMonth(v)

CallClearAll ==
  /\ View = "dashboard"
  /\ handleClearAllFilters

NextApi ==
  \/ ResponseOk
  \/ FilterTextResolves
  \/ CallToggleRepoName
  \/ CallTogglePackage
  \/ CallToggleAuthor
  \/ CallToggleChangeType
  \/ CallToggleMonth
  \/ CallClearAll

SpecApi == Init /\ [][NextApi]_vars

-----------------------------------------------------------------------------
(* The handlers called with any value over one loaded file: the selection     *)
(* state on its own                                                           *)
ExampleText == MakeText(Columns, <<BaseRow>>, FALSE)

ExampleTextResolves == Load(ExampleText)

NextToggle ==
  \/ ResponseOk
  \/ ExampleTextResolves
  \/ CallToggleRepoName
  \/ CallTogglePackage
  \/ CallToggleAuthor
  \/ CallToggleChangeType
  \/ CallToggleMonth
  \/ CallClearAll

SpecToggle == Init /\ [][NextToggle]_vars

-----------------------------------------------------------------------------
(* The dashboard over files of many repositories *)
NextRank ==
  \/ ResponseOk
  \/ RankTextResolves
  \/ ClickRepoBar
  \/ ClickClearAll

SpecRank == Init /\ [][NextRank]_vars

-----------------------------------------------------------------------------
(* Properties *)
Range(s) == {s[i] : i \in 1..Len(s)}
Occurrences(s, x) == Cardinality({i \in 1..Len(s) : s[i] = x})

\* a record has a parsed date when its timestamp was present and well-formed
HasParsedDate(r) == r.publishedDate.kind = "valid"

\* the year-month label with a two-digit month; NaN-NaN for an Invalid Date
PaddedLabel(d) ==
  IF d.kind = "valid"
  THEN NumStr(d.year) \o <<"-", Digits[((d.month + 1) \div 10) + 1], Digits[((d.month + 1) % 10) + 1]>>
  ELSE <<"N", "a", "N", "-", "N", "a", "N">>

\* the mean num / den to one decimal place, in tenths (num >= 0, den > 0)
MeanTenths(num, den) == (20 * num + den) \div (2 * den)

Loaded == pc = "done" /\ View = "dashboard"

C1_Matches(r) ==
  /\ selectedRepoNames # {} => repo_name(r) \in selectedRepoNames
  /\ selectedPackages # {} => package(r) \in selectedPackages
  /\ selectedAuthors # {} => author(r) \in selectedAuthors
  /\ selectedChangeTypes # {} => Range(r.derivedChangeTypes) \cap selectedChangeTypes # {}
  /\ selectedMonths # {} => (r.publishedDate.kind # "null" /\ PaddedLabel(r.publishedDate) \in selectedMonths)

\* C1: filteredReleases is exactly the subsequence, in order, of the records that
\* match every non-empty selection dimension (repository, package, author, at
\* least one derived tag, zero-padded year-month label); with the five sets empty
\* it is the whole input.
C1_FilterIsIntersection ==
  Loaded =>
    /\ filteredReleases = SelectSeq(releases, C1_Matches)
    /\ ~anyFilterActive => filteredReleases = releases

C1_Witness ==
  /\ Loaded
  /\ selectedPackages # {}
  /\ selectedMonths # {}
  /\ Len(releases) = 2
  /\ Len(filteredReleases) = 1

C2_TagsOf(r) ==
  LET t == r.derivedChangeTypes
      one(b) == IF b THEN 1 ELSE 0
      flag == Truthy(is_prerelease(r))
  IN /\ Occurrences(t, PRERELEASE) = one(flag)
     /\ Occurrences(t, STABLE) = one(~flag)
     /\ Occurrences(t, MAJOR) = one(r.raw[<<"major_changes">>] # <<>>)
     /\ Occurrences(t, MINOR) = one(r.raw[<<"minor_changes">>] # <<>>)
     /\ Occurrences(t, PATCH) = one(r.raw[<<"patch_changes">>] # <<>>)
     /\ Occurrences(t, OTHER_CHANGE) = one(r.raw[<<"other_changes">>] # <<>>)
     /\ Occurrences(t, GENERAL_OTHER) = one(Range(t) \cap {MAJOR, MINOR, PATCH, OTHER_CHANGE} = {})
     /\ Range(t) \subseteq ChangeTypes

\* C2: every record of processReleases carries exactly one of prerelease and
\* stable, chosen by its prerelease flag; each of major, minor, patch, other
\* exactly when the matching change list is non-empty; general_other exactly
\* when none of those four is present.
C2_Classification == \A i \in 1..Len(releases) : C2_TagsOf(releases[i])

C2_Witness ==
  /\ Loaded
  /\ \E i \in 1..Len(releases) : Range(releases[i].derivedChangeTypes) = {STABLE, GENERAL_OTHER}

C3_ExampleRow(r) ==
  /\ Truthy(Get(r.raw, "published_at_kst"))
  /\ is_prerelease(r) = <<"false">>
  /\ r.raw[<<"major_changes">>] = <<<<"fix">>>>
  /\ r.raw[<<"minor_changes">>] = <<>>
  /\ r.raw[<<"patch_changes">>] = <<>>
  /\ r.raw[<<"other_changes">>] = <<>>

\* C3: a row with a non-empty published_at_kst cell, the text false in the
\* is_prerelease cell, ['fix'] in the major_changes cell and [] in the other three
\* list cells yields a record with tags exactly {stable, major}, numMajorChanges 1
\* and the other three counts 0.
C3_ExampleIsStableMajor ==
  \A i \in 1..Len(releases) :
    C3_ExampleRow(releases[i]) =>
      /\ Range(releases[i].derivedChangeTypes) = {STABLE, MAJOR}
      /\ releases[i].numMajorChanges = 1
      /\ releases[i].numMinorChanges = 0
      /\ releases[i].numPatchChanges = 0
      /\ releases[i].numOtherChanges = 0

\* C4: whenever selectedMonths is non-empty, no record lacking a parsed date
\* appears in filteredReleases.
C4_MonthFilterDropsUndated ==
  (Loaded /\ selectedMonths # {}) =>
    \A i \in 1..Len(filteredReleases) : HasParsedDate(filteredReleases[i])

C5_Settled ==
  /\ ~isLoading
  /\ \/ error # Null /\ releases = <<>> /\ View = "error"
     \/ /\ error = Null
        /\ csvText # <<>>
        /\ LET processed == processReleases(parseCsvData(csvText))
           IN processed.ok /\ releases = processed.value

\* C5: once the load has settled isLoading is false and either error is set,
\* releases is empty and the error view is shown, or error is null and releases
\* is the enrichment of the whole fetched text; nothing later changes the
\* outcome, so error with a non-empty releases is never reached.
C5_LoadOutcome ==
  /\ [](pc = "done" => C5_Settled)
  /\ [](~(error # Null /\ releases # <<>>))
  /\ [][pc = "done" => (pc' = "done" /\ error' = error /\ releases' = releases
                         /\ isLoading' = isLoading /\ csvText' = csvText)]_vars

C5_Witness ==
  /\ pc = "done"
  /\ csvText # <<>>
  /\ error # Null
  /\ View = "error"

\* the header names of the fetched text
HeaderNames(text) == Range(HeadersOf(SelectSeq(SplitLines(text), NonBlankLine)))

\* C6: a file whose header lacks a column of CsvRelease, or has an extra column,
\* still ends in the loaded state, never in the error state.
C6_ColumnsDegradeGracefully ==
  (pc = "done" /\ csvText # <<>> /\ HeaderNames(csvText) # {<<c>> : c \in Range(Columns)}) =>
    (error = Null /\ View = "dashboard")

\* C7: the average-working-days KPI is the mean of working_days over the records
\* with working_days > 0, to one decimal place, and is N/A exactly when there is
\* no such record.
C7_AverageOverPositive ==
  Loaded =>
    LET positive == SelectSeq(filteredReleases, HasWorkingDays)
        kpi == kpiValues.avgWorkingDays
    IN IF positive = <<>> THEN kpi.na
       ELSE /\ ~kpi.na
            /\ kpi.tenths = MeanTenths(SumSeq(MapSeq(positive, WorkingDaysOf)), Len(positive))

C8_Positive(nm) ==
  SelectSeq(filteredReleases, LAMBDA r : repo_name(r) = nm /\ r.working_days > 0)

C8_Mean(nm) ==
  MeanTenths(SumSeq(MapSeq(C8_Positive(nm), WorkingDaysOf)), Len(C8_Positive(nm)))

C8_FirstAt(nm) ==
  CHOOSE i \in 1..Len(filteredReleases) :
    /\ repo_name(filteredReleases[i]) = nm /\ filteredReleases[i].working_days > 0
    /\ \A j \in 1..(i - 1) :
         ~(repo_name(filteredReleases[j]) = nm /\ filteredReleases[j].working_days > 0)

\* C8: the ranking has at most 10 entries, each for a different repository that
\* has a record with working_days > 0 (all of them when there are at most 10),
\* its average the mean of that repository's positive working_days to one
\* decimal; averages are non-increasing, ties are in first-appearance order, and
\* no omitted repository has a greater average than an included one.
C8_Ranking ==
  Loaded =>
    LET rank == repoWorkingDaysData
        repos == {repo_name(filteredReleases[i]) :
                    i \in {j \in 1..Len(filteredReleases) : filteredReleases[j].working_days > 0}}
        shown == {rank[k].name : k \in 1..Len(rank)}
    IN /\ Len(rank) <= 10
       /\ Len(rank) = (IF Cardinality(repos) < 10 THEN Cardinality(repos) ELSE 10)
       /\ shown \subseteq repos
       /\ Cardinality(shown) = Len(rank)
       /\ \A k \in 1..Len(rank) :
            /\ rank[k].avgWorkingDays = C8_Mean(rank[k].name)
            /\ rank[k].releases = Len(C8_Positive(rank[k].name))
       /\ \A k \in 1..(Len(rank) - 1) :
            /\ rank[k].avgWorkingDays >= rank[k + 1].avgWorkingDays
            /\ rank[k].avgWorkingDays = rank[k + 1].avgWorkingDays
                 => C8_FirstAt(rank[k].name) < C8_FirstAt(rank[k + 1].name)
       /\ \A nm \in repos \ shown : \A k \in 1..Len(rank) :
            C8_Mean(nm) <= rank[k].avgWorkingDays

C8_Witness ==
  /\ Loaded
  /\ Len(repoWorkingDaysData) = 10
  /\ Cardinality({repo_name(filteredReleases[i]) :
                    i \in {j \in 1..Len(filteredReleases) : filteredReleases[j].working_days > 0}}) > 10
  /\ repoWorkingDaysData[1].avgWorkingDays > repoWorkingDaysData[10].avgWorkingDays
  /\ repoWorkingDaysData[1].name # repo_name(filteredReleases[1])

C9_CountOf(e) == e.count

\* C9: the monthly series has one entry per year-month label of the filtered
\* records that have a parsed date, counting those records; records without a
\* parsed date contribute to no entry, so the counts sum to the number of
\* filtered records with a parsed date; labels ascend.
C9_FrequencyOverDated ==
  Loaded =>
    LET dated == SelectSeq(filteredReleases, HasParsedDate)
        series == releaseFrequencyData
    IN /\ \A k \in 1..Len(series) :
            /\ series[k].count > 0
            /\ series[k].count =
                 Cardinality({i \in 1..Len(dated) : PaddedLabel(dated[i].publishedDate) = series[k].date})
       /\ \A i \in 1..Len(dated) :
            \E k \in 1..Len(series) : series[k].date = PaddedLabel(dated[i].publishedDate)
       /\ SumSeq(MapSeq(series, C9_CountOf)) = Len(dated)
       /\ \A k \in 1..(Len(series) - 1) : LabelBefore(series[k].date, series[k + 1].date)

C10_Key(r) == IF HasParsedDate(r) THEN r.publishedDate.time ELSE 0

\* C10: the output of processReleases is in descending order of parsed date, a
\* record without a parsed date having the sort key time zero.
C10_SortedNewestFirst ==
  \A i, j \in 1..Len(releases) : i < j => C10_Key(releases[i]) >= C10_Key(releases[j])

C10_Witness ==
  /\ Loaded
  /\ Len(releases) = 2
  /\ HasParsedDate(releases[1])
  /\ ~HasParsedDate(releases[2])
  /\ Get(parseCsvData(csvText)[1], "published_at_kst") = <<"garbage">>

\* the published_at_kst field of a parsed record is present and not the empty text
C11_Published(e) ==
  <<"published_at_kst">> \in DOMAIN e /\ Len(e[<<"published_at_kst">>]) > 0

C11_RawOf(p) == p.raw

C11_Outcome ==
  LET parsed == parseCsvData(csvText)
      raws == MapSeq(releases, C11_RawOf)
  IN /\ error = Null =>
          /\ Len(releases) = Len(SelectSeq(parsed, C11_Published))
          /\ \A i \in 1..Len(parsed) :
               Occurrences(raws, parsed[i]) =
                 IF C11_Published(parsed[i]) THEN Occurrences(parsed, parsed[i]) ELSE 0
          /\ \A i \in 1..Len(raws) : raws[i] \in Range(parsed) /\ C11_Published(raws[i])
     /\ (\A i \in 1..Len(parsed) : ~C11_Published(parsed[i])) =>
          (error = Null /\ releases = <<>>)

\* C11: in the state a returned load leaves (the text fetched, no selection made
\* yet) releases holds exactly one record for each parsed record whose
\* published_at_kst is non-empty and none for any other parsed record; a file
\* whose records all have an empty published_at_kst loads with no record
\* whatever its other columns are.
C11_KeepsExactlyPublished ==
  (pc = "done" /\ csvText # <<>> /\ ~anyFilterActive) => C11_Outcome

C11_Witness ==
  /\ Loaded
  /\ ~anyFilterActive
  /\ Len(releases) = 1
  /\ LET parsed == parseCsvData(csvText)
     IN /\ Len(parsed) = 2
        /\ \E i \in 1..2 :
             /\ ~C11_Published(parsed[i])
             /\ Get(parsed[i], "repo_name") # <<>>
             /\ Get(parsed[i], "working_days") # <<>>

\* after is before with the membership of v flipped and every other member kept
C12_Flipped(before, after, v) ==
  \A x \in before \cup after \cup {v} :
    (x \in after) <=> (IF x = v THEN x \notin before ELSE x \in before)

C12_RepoNameToggle(v) ==
  /\ C12_Flipped(selectedRepoNames, selectedRepoNames', v)
  /\ UNCHANGED <<selectedPackages, selectedAuthors, selectedChangeTypes, selectedMonths>>

C12_PackageToggle(v) ==
  /\ C12_Flipped(selectedPackages, selectedPackages', v)
  /\ UNCHANGED <<selectedRepoNames, selectedAuthors, selectedChangeTypes, selectedMonths>>

C12_AuthorToggle(v) ==
  /\ C12_Flipped(selectedAuthors, selectedAuthors', v)
  /\ UNCHANGED <<selectedRepoNames, selectedPackages, selectedChangeTypes, selectedMonths>>

C12_ChangeTypeToggle(v) ==
  /\ C12_Flipped(selectedChangeTypes, selectedChangeTypes', v)
  /\ UNCHANGED <<selectedRepoNames, selectedPackages, selectedAuthors, selectedMonths>>

C12_MonthToggle(v) ==
  /\ C12_Flipped(selectedMonths, selectedMonths', v)
  /\ UNCHANGED <<selectedRepoNames, selectedPackages, selectedAuthors, selectedChangeTypes>>

C12_AllEmpty ==
  /\ selectedRepoNames' = {} /\ selectedPackages' = {} /\ selectedAuthors' = {}
  /\ selectedChangeTypes' = {} /\ selectedMonths' = {}

\* C12: in every reachable state each toggle handler, called with any value v,
\* can run and every state it leads to has the membership of v in its own set
\* flipped, the set's other members kept and the other four sets unchanged;
\* toggling v again gives back the set; handleClearAllFilters can run and every
\* state it leads to has the five sets empty.
C12_ToggleAndClear ==
  /\ \A v \in RepoUniverse :
       /\ ENABLED ToggleRepoName(v)
       /\ ~ENABLED (ToggleRepoName(v) /\ ~C12_RepoNameToggle(v))
       /\ Toggle(Toggle(selectedRepoNames, v), v) = selectedRepoNames
  /\ \A v \in PackageUniverse :
       /\ ENABLED TogglePackage(v)
       /\ ~ENABLED (TogglePackage(v) /\ ~C12_PackageToggle(v))
       /\ Toggle(Toggle(selectedPackages, v), v) = selectedPackages
  /\ \A v \in AuthorUniverse :
       /\ ENABLED ToggleAuthor(v)
       /\ ~ENABLED (ToggleAuthor(v) /\ ~C12_AuthorToggle(v))
       /\ Toggle(Toggle(selectedAuthors, v), v) = selectedAuthors
  /\ \A v \in ChangeTypes :
       /\ ENABLED toggleChangeTypeFilter(v)
       /\ ~ENABLED (toggleChangeTypeFilter(v) /\ ~C12_ChangeTypeToggle(v))
       /\ Toggle(Toggle(selectedChangeTypes, v), v) = selectedChangeTypes
  /\ \A v \in MonthUniverse :
       /\ ENABLED ToggleMonth(v)
       /\ ~ENABLED (ToggleMonth(v) /\ ~C12_MonthToggle(v))
       /\ Toggle(Toggle(selectedMonths, v), v) = selectedMonths
  /\ ENABLED handleClearAllFilters
  /\ ~ENABLED (handleClearAllFilters /\ ~C12_AllEmpty)

C12_Witness ==
  /\ Loaded
  /\ selectedPackages # {}
  /\ selectedChangeTypes # {}
  /\ SelectedCount = MaxSelected

\* C13: in every state reached by clicks on the rendered dashboard
\* selectedPackages is empty and selectedRepoNames, selectedAuthors and
\* selectedMonths hold at most one value each; selectedChangeTypes is the only
\* set that can hold more.
C13_ClickReachableSelections ==
  /\ selectedPackages = {}
  /\ Cardinality(selectedRepoNames) <= 1
  /\ Cardinality(selectedAuthors) <= 1
  /\ Cardinality(selectedMonths) <= 1

C13_Witness ==
  /\ Loaded
  /\ Len(releases) = 2
  /\ Cardinality(selectedChangeTypes) >= 2
  /\ Cardinality(selectedRepoNames) = 1
  /\ Cardinality(selectedAuthors) = 1
  /\ Cardinality(selectedMonths) = 1

====
